---- MODULE Spec2Model ----
(***************************************************************************)
(* A model of the Wordle solver of src/main.rs: the scoring function, the  *)
(* Scorer (word pools, score cache, reused bucket vector), the guess       *)
(* ranking, and the depth-first solvability search with its process-wide   *)
(* SEEN_TABLE / COUNTER scratch state.                                      *)
(*                                                                         *)
(* Words are sequences of symbols 1..NumSyms.  Indices into the pools are  *)
(* 1-based here (0-based in the source); feedback codes, SEEN_TABLE and    *)
(* COUNTER keep the values of the source.                                   *)
(***************************************************************************)
EXTENDS Integers, Sequences, FiniteSets, TLC

VARIABLES guesses, answers, score_cache, bucket_vec, SEEN_TABLE, COUNTER, call

vars == <<guesses, answers, score_cache, bucket_vec, SEEN_TABLE, COUNTER, call>>

----------------------------------------------------------------------------
(* Program constants *)

WORD_LEN == 5

MAX_BUCKET == 243

U8_MAX == 255

(* Bounds of the model *)

\* Size of the alphabet the words of the scoring check are drawn from.
NumSyms == 2

----------------------------------------------------------------------------
(* Generic helpers *)

Range(f) == {f[i] : i \in DOMAIN f}

Min2(a, b) == IF a <= b THEN a ELSE b

RECURSIVE Pow3(_)
Pow3(n) == IF n = 0 THEN 1 ELSE 3 * Pow3(n - 1)

----------------------------------------------------------------------------
(* Core scoring *)

\* pub static mut SEEN_TABLE: &mut [u8] = &mut [0; MAX_BUCKET]; COUNTER: u8 = 0
new_seen_table == [i \in 0..(MAX_BUCKET - 1) |-> 0]

\* enum CharScore { Absent, Correct, Present }, cast "as u8"
Absent == 0
Correct == 1
Present == 2

\* cs.map(|c| c as u8).fold(0, |acc, c| acc * 3 + c), from position i on
RECURSIVE encode_from(_, _, _)
encode_from(cs, i, acc) ==
    IF i > Len(cs) THEN acc ELSE encode_from(cs, i + 1, acc * 3 + cs[i])

encode_score(cs) == encode_from(cs, 1, 0)

\* The first pass of score_wordle: corrects[idx] = (guess[idx] == answer[idx]);
\* the used array starts as a copy of it.
corrects_of(guess, answer) == [idx \in 1..Len(guess) |-> guess[idx] = answer[idx]]

\* A variant that forgets to use up the matched answer slot.
check_presence_no_use(c, answer, used) ==
    LET hits == {idx \in 1..Len(answer) : ~used[idx] /\ c = answer[idx]}
    IN  IF hits = {} THEN [found |-> FALSE, used |-> used]
        ELSE [found |-> TRUE, used |-> used]

\* fn check_presence: the leftmost unused answer slot holding c is used up.
check_presence(c, answer, used) ==
    LET hits == {idx \in 1..Len(answer) : ~used[idx] /\ c = answer[idx]}
    IN  IF hits = {} THEN [found |-> FALSE, used |-> used]
        ELSE LET idx == CHOOSE h \in hits : \A k \in hits : h <= k
             IN  [found |-> TRUE, used |-> [used EXCEPT ![idx] = TRUE]]

\* The second pass: the lazy map over zip(corrects, guess), left to right.
RECURSIVE char_scores(_, _, _, _, _, _)
char_scores(guess, answer, corrects, used, i, acc) ==
    IF i > Len(guess) THEN acc
    ELSE IF corrects[i]
         THEN char_scores(guess, answer, corrects, used, i + 1, Append(acc, Correct))
         ELSE LET p == check_presence(guess[i], answer, used)
              IN  char_scores(guess, answer, corrects, p.used, i + 1,
                              Append(acc, IF p.found THEN Present ELSE Absent))

\* assert_eq!(guess.len(), WORD_LEN); assert_eq!(answer.len(), WORD_LEN)
WellFormed(w) == Len(w) = WORD_LEN

score_wordle(guess, answer) ==
    LET corrects == corrects_of(guess, answer)
    IN  encode_score(char_scores(guess, answer, corrects, corrects, 1, <<>>))

----------------------------------------------------------------------------
(* Scoring specification: one call of score_wordle on any pair of words *)

Symbols == 1..NumSyms

Words == {w \in [1..WORD_LEN -> Symbols] : WellFormed(w)}

NoCall == [op |-> "none", err |-> "none"]

InitScore ==
    /\ guesses = <<>>
    /\ answers = <<>>
    /\ score_cache = <<>>
    /\ bucket_vec = <<>>
    /\ SEEN_TABLE = new_seen_table
    /\ COUNTER = 0
    /\ call \in {[op |-> "input", guess |-> g, answer |-> a] : g \in Words, a \in Words}

ScoreWordle ==
    /\ call.op = "input"
    /\ call' = [op |-> "score_wordle", guess |-> call.guess, answer |-> call.answer,
                ret |-> score_wordle(call.guess, call.answer)]
    /\ UNCHANGED <<guesses, answers, score_cache, bucket_vec, SEEN_TABLE, COUNTER>>

NextScore == ScoreWordle

SpecScore == InitScore /\ [][NextScore]_vars

----------------------------------------------------------------------------
(* C2 *)

\* The feedback digit of position i (most significant first) of a code.
Digit(code, i) == (code \div Pow3(WORD_LEN - i)) % 3

Count(S) == Cardinality(S)

\* C2: score_wordle returns the base-3 code (most significant digit first,
\* Absent=0, Correct=1, Present=2) in which position i is Correct iff
\* guess[i] = answer[i] and, for every symbol c, exactly the leftmost k
\* non-Correct guess positions holding c are Present and the others Absent,
\* with k = min(non-Correct guess positions holding c, occurrences of c in
\* the answer minus the Correct positions holding c); a word scored against
\* itself is all Correct.
C2_ScoreRule ==
    call.op = "score_wordle" =>
        LET g == call.guess
            a == call.answer
            r == call.ret
            Pos == 1..WORD_LEN
        IN  /\ r \in 0..(MAX_BUCKET - 1)
            /\ \A i \in Pos : (Digit(r, i) = Correct) <=> (g[i] = a[i])
            /\ \A c \in Symbols :
                 LET NC == {i \in Pos : g[i] = c /\ g[i] # a[i]}
                     k == Min2(Count(NC),
                               Count({i \in Pos : a[i] = c})
                                 - Count({i \in Pos : g[i] = c /\ a[i] = c}))
                 IN  /\ \A i \in NC :
                          Digit(r, i) = IF Count({j \in NC : j < i}) < k
                                        THEN Present ELSE Absent
                     /\ Count({i \in Pos : g[i] = c /\ Digit(r, i) # Absent})
                          <= Count({i \in Pos : a[i] = c})
            /\ (g = a => r = encode_score([i \in Pos |-> Correct]))

\* A repeated guess letter of which only the leftmost copy is Present.
C2_Witness ==
    /\ call.op = "score_wordle"
    /\ \E i, j \in 1..WORD_LEN :
         /\ i < j
         /\ call.guess[i] = call.guess[j]
         /\ Digit(call.ret, i) = Present
         /\ Digit(call.ret, j) = Absent
    /\ \E i \in 1..WORD_LEN : Digit(call.ret, i) = Correct

----------------------------------------------------------------------------
(* The Scorer *)

\* Scorer::new, "Score them all up-front": row g, column a.
new_score_cache(gs, as) ==
    [g \in 1..Len(gs) |-> [a \in 1..Len(as) |-> score_wordle(gs[g], as[a])]]

\* Scorer::new: bucket_vec = (0..MAX_BUCKET).map(|_| Vec::new())
new_bucket_vec == [i \in 1..MAX_BUCKET |-> <<>>]

\* Ord for Vec<usize> / String: lexicographic.
RECURSIVE LexLess(_, _, _)
LexLess(v, w, i) ==
    IF i > Len(w) THEN FALSE
    ELSE IF i > Len(v) THEN TRUE
    ELSE IF v[i] # w[i] THEN v[i] < w[i]
    ELSE LexLess(v, w, i + 1)

\* Ord for the (len, vec) pairs sorted in bucket_answers.
BucketLess(v, w) == Len(v) < Len(w) \/ (Len(v) = Len(w) /\ LexLess(v, w, 1))

\* The candidates of one feedback code, in the order they were pushed.
group_of(row, cands, code) == SelectSeq(cands, LAMBDA a : row[a] = code)

\* v.sort_by(|a, b| b.cmp(a)): descending; the elements are pairwise different,
\* so the HashMap's iteration order does not show in the result.
RECURSIVE sort_desc(_)
sort_desc(S) ==
    IF S = {} THEN <<>>
    ELSE LET top == CHOOSE v \in S : \A w \in S : ~BucketLess(v, w)
         IN  <<top>> \o sort_desc(S \ {top})

\* A variant that drops the candidates of the smallest feedback code.
bucket_answers_lossy(cache, guess, cands) ==
    LET row == cache[guess]
        codes == {row[cands[i]] : i \in DOMAIN cands}
    IN  sort_desc({group_of(row, cands, code) :
                     code \in {c \in codes : \E d \in codes : d < c}})

\* Scorer::bucket_answers
bucket_answers(cache, guess, cands) ==
    LET row == cache[guess]
        codes == {row[cands[i]] : i \in DOMAIN cands}
    IN  sort_desc({group_of(row, cands, code) : code \in codes})

\* for bucket in self.bucket_vec.iter_mut() { bucket.clear() }: as many
\* entries as before, all empty.
cleared(total) ==
    IF total = MAX_BUCKET THEN new_bucket_vec ELSE [i \in 1..total |-> <<>>]

\* The entries of length n, n - 1, .. 1 of vs, each length in the order of vs.
RECURSIVE by_len_desc(_, _)
by_len_desc(vs, n) ==
    IF n = 0 THEN <<>>
    ELSE SelectSeq(vs, LAMBDA v : Len(v) = n) \o by_len_desc(vs, n - 1)

\* self.bucket_vec.sort_by(|a, b| b.len().cmp(&a.len())) on a vector of
\* total entries of which the non-empty ones are, in order, vs: a stable
\* sort, longest first, so the empty entries end up last.
stable_by_len_desc(vs, total, n) ==
    by_len_desc(vs, n) \o SubSeq(cleared(total), 1, total - Len(vs))

\* The elements of a finite set of numbers in ascending order.
RECURSIVE ascending(_)
ascending(S) ==
    IF S = {} THEN <<>>
    ELSE LET low == CHOOSE x \in S : \A y \in S : x <= y
         IN  <<low>> \o ascending(S \ {low})

\* bucket_answers3 after its second loop: every entry was cleared and entry
\* score_cache[guess][a] got each candidate a pushed, so the non-empty
\* entries are, in order of their position, the candidates of each feedback
\* code that occurs, in ascending order of the code.
filled_entries(row, cands) ==
    LET codes == ascending({row[cands[i]] : i \in DOMAIN cands})
    IN  [k \in 1..Len(codes) |-> group_of(row, cands, codes[k])]

\* buckets.iter().map(|v| v.len()).max(), from entry i on
RECURSIVE MaxLen(_, _)
MaxLen(bs, i) ==
    IF i > Len(bs) THEN 0
    ELSE LET m == MaxLen(bs, i + 1) IN IF Len(bs[i]) > m THEN Len(bs[i]) ELSE m

\* A variant that forgets to clear the reused vectors: what an earlier call
\* left in the leading entries stays in front of the new candidates.
bucket_answers3_no_clear(bv, cache, guess, cands) ==
    LET old == SubSeq(bv, 1, Min2(Len(bv), 3))
        stale == SelectSeq(old, LAMBDA v : v # <<>>)
        vs == filled_entries(cache[guess], cands)
        mixed == [k \in 1..Len(vs) |-> IF k <= Len(stale) THEN stale[k] \o vs[k] ELSE vs[k]]
    IN  stable_by_len_desc(mixed, Len(bv), Len(bv[1]) + Len(cands))

\* Scorer::bucket_answers3: the new value of bucket_vec.
bucket_answers3(bv, cache, guess, cands) ==
    stable_by_len_desc(filled_entries(cache[guess], cands), Len(bv), Len(cands))

\* Ord for the (usize, usize, String) triples of worst_cases.
TripleLess(x, y) ==
    \/ x[1] < y[1]
    \/ x[1] = y[1] /\ x[2] < y[2]
    \/ x[1] = y[1] /\ x[2] = y[2] /\ LexLess(x[3], y[3], 1)

\* worst_cases.sort(): ascending
RECURSIVE sort_asc(_)
sort_asc(S) ==
    IF S = {} THEN <<>>
    ELSE LET low == CHOOSE x \in S : \A y \in S : ~TripleLess(y, x)
         IN  <<low>> \o sort_asc(S \ {low})

\* A variant that ranks by the word and not by the worst case.
worst_cases_by_word(gs, as, cache) ==
    LET answer_nums == [i \in 1..Len(as) |-> i]
    IN  sort_asc({<<0, idx, gs[idx]>> : idx \in 1..Len(gs)})

\* optimise_guess_order: the sorted (largest_bucket_size, idx, guess) triples.
worst_cases(gs, as, cache) ==
    LET answer_nums == [i \in 1..Len(as) |-> i]
    IN  sort_asc({<<MaxLen(bucket_answers(cache, idx, answer_nums), 1), idx, gs[idx]>> :
                    idx \in 1..Len(gs)})

\* A variant that re-ranks the guesses and leaves the cache rows where they were.
permute_rows_stale(cache, wc) == cache

\* optimise_guess_order: score_cache = worst_cases.map(|(_, idx, _)| score_cache[idx])
permute_rows(cache, wc) == [i \in DOMAIN wc |-> cache[wc[i][2]]]

----------------------------------------------------------------------------
(* Scorer specifications: a Scorer over small pools, re-ranked and bucketed *)

\* Longest guess pool of the ranking specification.
MaxGuesses == 4

\* Size of the answer pool.
MaxAnswers == 3

GuessWords ==
    << <<3, 3, 3, 3, 3>>, <<2, 3, 3, 3, 3>>, <<1, 1, 1, 1, 2>>, <<3, 3, 3, 3, 2>> >>

AnswerWords ==
    << <<1, 1, 1, 1, 1>>, <<1, 1, 1, 1, 2>>, <<1, 1, 1, 2, 1>>,
       <<2, 1, 1, 1, 1>>, <<1, 2, 1, 1, 1>> >>

Seqs(S, n) == UNION {[1..k -> S] : k \in 1..n}

\* Guess pools with repeated and lexicographically unordered words.
GuessPools == Seqs(Range(GuessWords), MaxGuesses)

AnswerPool == SubSeq(AnswerWords, 1, Min2(MaxAnswers, Len(AnswerWords)))

\* Candidate lists: distinct answer indices, in any order, possibly none.
CandLists(n) ==
    {c \in UNION {[1..k -> 1..n] : k \in 0..n} :
        \A i, j \in DOMAIN c : i # j => c[i] # c[j]}

\* The answer indices held anywhere in a sequence of buckets.
Members(bs) == UNION {Range(bs[i]) : i \in 1..Len(bs)}

\* The state Scorer::new builds from the two word lists, in a fresh process.
NewScorer(gs, as) ==
    /\ guesses = gs
    /\ answers = as
    /\ score_cache = new_score_cache(gs, as)
    /\ bucket_vec = new_bucket_vec
    /\ SEEN_TABLE = new_seen_table
    /\ COUNTER = 0
    /\ call = NoCall

OptimiseGuessOrder ==
    LET wc == worst_cases(guesses, answers, score_cache)
    IN  /\ guesses' = [i \in DOMAIN wc |-> wc[i][3]]
        /\ score_cache' = permute_rows(score_cache, wc)
        /\ call' = [op |-> "optimise_guess_order", before |-> guesses,
                    before_cache |-> score_cache]
        /\ UNCHANGED <<answers, bucket_vec, SEEN_TABLE, COUNTER>>

BucketAnswers ==
    \E guess \in 1..Len(guesses), cands \in CandLists(Len(answers)) :
        /\ call' = [op |-> "bucket_answers", guess |-> guess, cands |-> cands,
                    ret |-> bucket_answers(score_cache, guess, cands)]
        /\ UNCHANGED <<guesses, answers, score_cache, bucket_vec, SEEN_TABLE, COUNTER>>

BucketAnswers3 ==
    \E guess \in 1..Len(guesses), cands \in CandLists(Len(answers)) :
        /\ bucket_vec' = bucket_answers3(bucket_vec, score_cache, guess, cands)
        /\ call' = [op |-> "bucket_answers3", guess |-> guess, cands |-> cands,
                    left_over |-> Members(bucket_vec) \ Range(cands) # {}]
        /\ UNCHANGED <<guesses, answers, score_cache, SEEN_TABLE, COUNTER>>

\* Ranking: any guess pool, re-ranked.
InitRank == \E gs \in GuessPools : NewScorer(gs, AnswerPool)

NextRank == OptimiseGuessOrder

SpecRank == InitRank /\ [][NextRank]_vars

\* Bucketing with fresh buckets, before and after the re-ranking.
InitBucket == NewScorer(GuessWords, AnswerPool)

NextBucket == OptimiseGuessOrder \/ BucketAnswers

SpecBucket == InitBucket /\ [][NextBucket]_vars

\* Bucketing into the reused bucket_vec, call after call.
NextBucket3 == OptimiseGuessOrder \/ BucketAnswers3

SpecBucket3 == InitBucket /\ [][NextBucket3]_vars

----------------------------------------------------------------------------
(* C3 *)

RECURSIVE SumLen(_, _)
SumLen(bs, i) == IF i > Len(bs) THEN 0 ELSE Len(bs[i]) + SumLen(bs, i + 1)

\* C3: the buckets bucket_answers returns are non-empty and pairwise
\* disjoint, their union is the candidate set, their sizes add up to its
\* size, and two candidates share a bucket iff they share a feedback code
\* under the guess.
C3_BucketsPartition ==
    call.op = "bucket_answers" =>
        LET bs == call.ret
            row == score_cache[call.guess]
            S == Range(call.cands)
        IN  /\ \A i \in 1..Len(bs) : bs[i] # <<>>
            /\ \A i, j \in 1..Len(bs) : i # j => Range(bs[i]) \cap Range(bs[j]) = {}
            /\ Members(bs) = S
            /\ SumLen(bs, 1) = Len(call.cands)
            /\ \A a, b \in S :
                 (\E i \in 1..Len(bs) : a \in Range(bs[i]) /\ b \in Range(bs[i]))
                    <=> row[a] = row[b]

\* A guess that puts two candidates in one bucket and a third in another.
C3_Witness ==
    /\ call.op = "bucket_answers"
    /\ Len(call.cands) = 3
    /\ Len(call.ret) = 2
    /\ Len(call.ret[1]) = 2

----------------------------------------------------------------------------
(* C7, C8 *)

Perms(n) == {p \in [1..n -> 1..n] : \A i, j \in 1..n : i # j => p[i] # p[j]}

\* The size of the largest feedback-code class of the answer pool under a word.
WorstCase(word) ==
    LET code(a) == score_wordle(word, answers[a])
        class(a) == {b \in 1..Len(answers) : code(b) = code(a)}
    IN  CHOOSE n \in 1..Len(answers) :
            /\ \E a \in 1..Len(answers) : Cardinality(class(a)) = n
            /\ \A a \in 1..Len(answers) : Cardinality(class(a)) <= n

\* C7: after Scorer::new and after optimise_guess_order, score_cache[g][a]
\* is score_wordle(guesses[g], answers[a]); the re-ranking permutes the
\* guesses and the cache rows by one permutation and leaves the answer pool
\* and the columns alone.
C7_CacheInLockstep ==
    /\ Len(score_cache) = Len(guesses)
    /\ \A g \in 1..Len(guesses) :
         /\ Len(score_cache[g]) = Len(answers)
         /\ \A a \in 1..Len(answers) :
              score_cache[g][a] = score_wordle(guesses[g], answers[a])
    /\ answers = AnswerPool
    /\ call.op = "optimise_guess_order" =>
         /\ Len(guesses) = Len(call.before)
         /\ \E p \in Perms(Len(guesses)) :
              \A i \in 1..Len(guesses) :
                 /\ guesses[i] = call.before[p[i]]
                 /\ score_cache[i] = call.before_cache[p[i]]

\* A re-ranking that moved a guess, in a pool with two different words.
C7_Witness ==
    /\ call.op = "optimise_guess_order"
    /\ guesses # call.before
    /\ score_cache # call.before_cache

\* C8: after optimise_guess_order the pool is in ascending order of worst
\* case, and guesses of equal worst case are in the order of their original
\* indices.
C8_RankedByWorstCase ==
    call.op = "optimise_guess_order" =>
        /\ Len(guesses) = Len(call.before)
        /\ \E p \in Perms(Len(guesses)) :
             /\ \A i \in 1..Len(guesses) : guesses[i] = call.before[p[i]]
             /\ \A i, j \in 1..Len(guesses) :
                  i < j =>
                    \/ WorstCase(guesses[i]) < WorstCase(guesses[j])
                    \/ /\ WorstCase(guesses[i]) = WorstCase(guesses[j])
                       /\ p[i] < p[j]

\* A re-ranked pool with a repeated word, a tie between two different words
\* that were out of lexicographic order, and a guess that moved.
C8_Witness ==
    /\ call.op = "optimise_guess_order"
    /\ guesses # call.before
    /\ \E i, j \in 1..Len(guesses) : i # j /\ guesses[i] = guesses[j]
    /\ \E i \in 1..(Len(guesses) - 1) :
         /\ WorstCase(guesses[i]) = WorstCase(guesses[i + 1])
         /\ LexLess(guesses[i + 1], guesses[i], 1)

----------------------------------------------------------------------------
(* C10 *)

\* The filled positions <<entry, offset>> of a sequence of buckets.
Slots(bs) == UNION {{<<i, k>> : k \in 1..Len(bs[i])} : i \in 1..Len(bs)}

\* C10: after any sequence of bucket_answers3 calls bucket_vec has MAX_BUCKET
\* entries; its non-empty entries are the feedback-code classes of the last
\* call's candidates (each candidate in exactly one entry, two in one entry
\* iff they share a code, nothing left of earlier calls), longest first and
\* the empty entries last.
C10_BucketVecReused ==
    /\ Len(bucket_vec) = MAX_BUCKET
    /\ call.op = "none" => \A i \in 1..MAX_BUCKET : bucket_vec[i] = <<>>
    /\ call.op = "bucket_answers3" =>
         LET row == score_cache[call.guess]
             S == Range(call.cands)
         IN  /\ Members(bucket_vec) = S
             /\ Cardinality(Slots(bucket_vec)) = Len(call.cands)
             /\ \A a, b \in S :
                  (\E i \in 1..MAX_BUCKET :
                      a \in Range(bucket_vec[i]) /\ b \in Range(bucket_vec[i]))
                    <=> row[a] = row[b]
             /\ \A i \in 1..(MAX_BUCKET - 1) :
                  Len(bucket_vec[i]) >= Len(bucket_vec[i + 1])

\* A call that found in bucket_vec an index of an earlier call that is not
\* among its own candidates, and whose two candidates share a feedback code
\* other than 0, so that the sort moved their entry to the front.
C10_Witness ==
    /\ call.op = "bucket_answers3"
    /\ call.left_over
    /\ Len(bucket_vec[1]) = 2
    /\ score_cache[call.guess][bucket_vec[1][1]] > 0

----------------------------------------------------------------------------
(* Depth-first search solver *)

\* "Iterate over the answers, early-outing if a bucket is used twice."
RECURSIVE seen_scan(_, _, _, _, _)
seen_scan(row, cands, i, t, c) ==
    IF i > Len(cands) THEN [t |-> t, r |-> TRUE]
    ELSE LET score == row[cands[i]]
         IN  IF t[score] = c THEN [t |-> t, r |-> FALSE]
             ELSE seen_scan(row, cands, i + 1, [t EXCEPT ![score] = c], c)

\* The record a call of can_solve_with_guess2 leaves: table, counter, result.
seen_result(sc, c) == [t |-> sc.t, c |-> c, r |-> sc.r]

\* can_solve_with_guess2 on the table t and counter c: "Set counter to a
\* value not seen in the array", then the scan.
can_solve_with_guess2(cache, guess, cands, t, c) ==
    IF c = U8_MAX
    THEN seen_result(seen_scan(cache[guess], cands, 1, [i \in DOMAIN t |-> 255], 0), 0)
    ELSE seen_result(seen_scan(cache[guess], cands, 1, t, c + 1), c + 1)

\* can_solve2: (0..s.guesses.len()).any(..), from guess g on; any() stops at
\* the first guess that returns true (can_solve2_next: after guess g
\* returned one).
RECURSIVE can_solve2_from(_, _, _, _, _)
RECURSIVE can_solve2_next(_, _, _, _)

can_solve2_next(cache, cands, g, one) ==
    IF one.r THEN one ELSE can_solve2_from(cache, cands, g + 1, one.t, one.c)

can_solve2_from(cache, cands, g, t, c) ==
    IF g > Len(cache) THEN [t |-> t, c |-> c, r |-> FALSE]
    ELSE can_solve2_next(cache, cands, g, can_solve_with_guess2(cache, g, cands, t, c))

can_solve2(cache, cands, t, c) == can_solve2_from(cache, cands, 1, t, c)

\* can_solve3, inner all(): v.is_empty() || can_solve2(s, &v) over the
\* entries of bucket_vec in order; the empty entries, which the sort put
\* last, change nothing, so the walk is over the non-empty entries vs; all()
\* stops at the first false (can_solve3_all_next: after entry i returned one).
RECURSIVE can_solve3_all(_, _, _, _, _)
RECURSIVE can_solve3_all_next(_, _, _, _)

can_solve3_all_next(cache, vs, i, one) ==
    IF one.r THEN can_solve3_all(cache, vs, i + 1, one.t, one.c) ELSE one

can_solve3_all(cache, vs, i, t, c) ==
    IF i > Len(vs) THEN [t |-> t, c |-> c, r |-> TRUE]
    ELSE can_solve3_all_next(cache, vs, i, can_solve2(cache, vs[i], t, c))

\* can_solve3, outer any() from guess g on: bucket_vec is refilled for every
\* guess tried and keeps the buckets of the last one (can_solve3_next: after
\* the buckets bv1 of guess g returned all).
RECURSIVE can_solve3_from(_, _, _, _, _, _)
RECURSIVE can_solve3_next(_, _, _, _, _)
RECURSIVE can_solve3_try(_, _, _, _, _, _)

can_solve3_next(cache, cands, g, bv1, all) ==
    IF all.r THEN [bv |-> bv1, t |-> all.t, c |-> all.c, r |-> TRUE]
    ELSE can_solve3_from(cache, cands, g + 1, bv1, all.t, all.c)

can_solve3_try(cache, cands, g, bv1, t, c) ==
    can_solve3_next(cache, cands, g, bv1,
        can_solve3_all(cache, SubSeq(bv1, 1, Len(filled_entries(cache[g], cands))), 1, t, c))

can_solve3_from(cache, cands, g, bv, t, c) ==
    IF g > Len(cache) THEN [bv |-> bv, t |-> t, c |-> c, r |-> FALSE]
    ELSE can_solve3_try(cache, cands, g, bucket_answers3(bv, cache, g, cands), t, c)

can_solve3(cache, cands, bv, t, c) == can_solve3_from(cache, cands, 1, bv, t, c)

\* The outcomes of a call: a returned boolean r (err = NoError), or the way
\* the process died.
NoError == "none"
Underflow == "num_guesses - 1 below zero"
UnderflowInAssert == "num_guesses - 1 below zero in assert_eq"
SubtractOverflow == "attempt to subtract with overflow"
StackOverflow == "stack overflow"
AssertFailed == "assertion failed"
IndexOutOfBounds == "index out of bounds"

\* num_guesses - 1 at num_guesses = 0: a panic in a build with overflow checks;
\* without them the budget wraps to usize::MAX; in can_solve the recursion,
\* one frame per level over never-empty buckets, then runs out of stack long
\* before the budget is back at 3, and in assert_eq!(num_guesses - 1, 3) the
\* assertion fails.  Either way the call does not return.
Outcomes(err) ==
    IF err = Underflow THEN {SubtractOverflow, StackOverflow}
    ELSE IF err = UnderflowInAssert THEN {SubtractOverflow, AssertFailed}
    ELSE {err}

\* A call that returned r.
returned(bv, t, c, r) == [bv |-> bv, t |-> t, c |-> c, r |-> r, err |-> NoError]

\* A call that did not return.
died(bv, t, c, err) == [bv |-> bv, t |-> t, c |-> c, r |-> FALSE, err |-> err]

\* can_solve: the general solver.  can_solve_guesses is the for loop from
\* guess idx on, can_solve_buckets the all() over the buckets from bucket i
\* on; the _next operators continue after a bucket or a guess is done.
RECURSIVE can_solve(_, _, _, _, _, _)
RECURSIVE can_solve_guesses(_, _, _, _, _, _, _)
RECURSIVE can_solve_guesses_next(_, _, _, _, _)
RECURSIVE can_solve_buckets(_, _, _, _, _, _, _)
RECURSIVE can_solve_buckets_next(_, _, _, _, _)

can_solve_buckets_next(cache, n, buckets, i, one) ==
    IF one.err # NoError \/ ~one.r THEN one
    ELSE can_solve_buckets(cache, n, buckets, i + 1, one.bv, one.t, one.c)

can_solve_buckets(cache, n, buckets, i, bv, t, c) ==
    IF i > Len(buckets) THEN returned(bv, t, c, TRUE)
    ELSE IF n = 0 THEN died(bv, t, c, Underflow)
    ELSE can_solve_buckets_next(cache, n, buckets, i,
                                can_solve(cache, n - 1, buckets[i], bv, t, c))

can_solve_guesses_next(cache, n, cands, idx, all) ==
    IF all.err # NoError \/ all.r THEN all
    ELSE can_solve_guesses(cache, n, cands, idx + 1, all.bv, all.t, all.c)

can_solve_guesses(cache, n, cands, idx, bv, t, c) ==
    IF idx > Len(cache) THEN returned(bv, t, c, FALSE)
    ELSE can_solve_guesses_next(cache, n, cands, idx,
            can_solve_buckets(cache, n, bucket_answers(cache, idx, cands), 1, bv, t, c))

\* return can_solve3(s, answers): the Scorer's bucket_vec is the one changed.
from_can_solve3(res) == returned(res.bv, res.t, res.c, res.r)

\* return can_solve2(s, answers): bucket_vec is not touched.
from_can_solve2(res, bv) == returned(bv, res.t, res.c, res.r)

can_solve(cache, n, cands, bv, t, c) ==
    IF n = 3 THEN from_can_solve3(can_solve3(cache, cands, bv, t, c))
    ELSE IF n = 2 THEN from_can_solve2(can_solve2(cache, cands, t, c), bv)
    ELSE can_solve_guesses(cache, n, cands, 1, bv, t, c)

\* Top-level copy of the solver.

\* for idx in 0..10
NOISY_TRIES == 10

\* const DEPTH: usize = 4
DEPTH == 4

\* can_solve_with_guess_noisy, the for loop from bucket i on.
RECURSIVE noisy_buckets(_, _, _, _, _, _, _)
RECURSIVE noisy_buckets_next(_, _, _, _, _)

noisy_buckets_next(cache, n, buckets, i, soluble) ==
    IF soluble.err # NoError \/ ~soluble.r THEN soluble
    ELSE noisy_buckets(cache, n, buckets, i + 1, soluble.bv, soluble.t, soluble.c)

noisy_buckets(cache, n, buckets, i, bv, t, c) ==
    IF i > Len(buckets) THEN returned(bv, t, c, TRUE)
    ELSE IF n = 0 THEN died(bv, t, c, UnderflowInAssert)
    ELSE IF n - 1 # 3 THEN died(bv, t, c, AssertFailed)
    ELSE noisy_buckets_next(cache, n, buckets, i,
                            can_solve(cache, n - 1, buckets[i], bv, t, c))

can_solve_with_guess_noisy(cache, guess, n, cands, bv, t, c) ==
    IF guess > Len(cache) THEN died(bv, t, c, IndexOutOfBounds)
    ELSE noisy_buckets(cache, n, bucket_answers(cache, guess, cands), 1, bv, t, c)

\* can_solve_noisy, the for loop from guess idx on (1-based): s.guesses[idx]
\* is read for the message before the guess is tried.
RECURSIVE noisy_guesses(_, _, _, _, _, _, _)
RECURSIVE noisy_guesses_next(_, _, _, _, _)

noisy_guesses_next(cache, n, cands, idx, one) ==
    IF one.err # NoError \/ one.r THEN one
    ELSE noisy_guesses(cache, n, cands, idx + 1, one.bv, one.t, one.c)

noisy_guesses(cache, n, cands, idx, bv, t, c) ==
    IF idx > NOISY_TRIES THEN returned(bv, t, c, FALSE)
    ELSE IF idx > Len(cache) THEN died(bv, t, c, IndexOutOfBounds)
    ELSE noisy_guesses_next(cache, n, cands, idx,
            can_solve_with_guess_noisy(cache, idx, n, cands, bv, t, c))

can_solve_noisy(cache, n, cands, bv, t, c) == noisy_guesses(cache, n, cands, 1, bv, t, c)

----------------------------------------------------------------------------
(* Two-guess check specification: call after call on the shared table *)

\* One guess that tells the two answers apart and one that does not.
SeenGuesses == << <<3, 3, 3, 3, 3>>, <<2, 3, 3, 3, 3>> >>

SeenAnswers == << <<1, 1, 1, 1, 1>>, <<1, 1, 1, 1, 2>> >>

\* Candidate lists of the search: never empty, and in ascending order, as
\* main and the bucketing of an ascending list produce them.
SearchCands ==
    {c \in CandLists(Len(answers)) :
        c # <<>> /\ \A i, j \in DOMAIN c : i < j => c[i] < c[j]}

InitSeen == NewScorer(SeenGuesses, SeenAnswers)

\* The table and counter a two-guess call leaves; the call is recorded.
SeenStep(res, record) ==
    /\ SEEN_TABLE' = res.t
    /\ COUNTER' = res.c
    /\ call' = [record EXCEPT !.ret = res.r]
    /\ UNCHANGED <<guesses, answers, score_cache, bucket_vec>>

CanSolveWithGuess2 ==
    \E guess \in 1..Len(guesses), cands \in SearchCands :
        SeenStep(can_solve_with_guess2(score_cache, guess, cands, SEEN_TABLE, COUNTER),
                 [op |-> "can_solve_with_guess2", guess |-> guess, cands |-> cands,
                  ret |-> FALSE])

CanSolve2 ==
    \E cands \in SearchCands :
        SeenStep(can_solve2(score_cache, cands, SEEN_TABLE, COUNTER),
                 [op |-> "can_solve2", cands |-> cands, ret |-> FALSE])

NextSeen == CanSolveWithGuess2 \/ CanSolve2

SpecSeen == InitSeen /\ [][NextSeen]_vars

----------------------------------------------------------------------------
(* C1 *)

\* The feedback codes of a guess are pairwise distinct over the candidates.
Injective(row, cands) ==
    \A i, j \in 1..Len(cands) : i # j => row[cands[i]] # row[cands[j]]

\* C1: whatever calls came before, can_solve_with_guess2 returns true iff the
\* guess's feedback codes are pairwise distinct over the candidates, and
\* can_solve2 returns true iff some guess of the pool is injective on them.
C1_TwoGuessCheckExact ==
    /\ call.op = "can_solve_with_guess2" =>
         (call.ret <=> Injective(score_cache[call.guess], call.cands))
    /\ call.op = "can_solve2" =>
         (call.ret <=> \E g \in 1..Len(guesses) : Injective(score_cache[g], call.cands))

----------------------------------------------------------------------------
(* Search specification: can_solve, call after call in one process *)

\* Guess budgets tried: the budgets of the general case.
MinBudget == 3

MaxBudget == 4

\* A panic or a stack overflow ends the process.
Alive == call.err = NoError

\* Guess pools of this specification: the second guess alone, and both.
SearchPools == {SubSeq(SeenGuesses, 2, 2), SeenGuesses}

InitSearch == \E gs \in SearchPools : NewScorer(gs, SeenAnswers)

\* Candidate lists of this specification: the leading answers of the pool.
LeadingCands == {[i \in 1..k |-> i] : k \in 1..Len(answers)}

\* The state a search call leaves; the call is recorded with its outcome.
SearchStep(res, record) ==
    /\ bucket_vec' = res.bv
    /\ SEEN_TABLE' = res.t
    /\ COUNTER' = res.c
    /\ \E e \in Outcomes(res.err) : call' = [record EXCEPT !.ret = res.r, !.err = e]
    /\ UNCHANGED <<guesses, answers, score_cache>>

CanSolve ==
    \E n \in MinBudget..MaxBudget, cands \in LeadingCands :
        /\ Alive
        /\ SearchStep(can_solve(score_cache, n, cands, bucket_vec, SEEN_TABLE, COUNTER),
                      [op |-> "can_solve", num_guesses |-> n, cands |-> cands,
                       ret |-> FALSE, err |-> NoError])

NextSearch == CanSolve

SpecSearch == InitSearch /\ [][NextSearch]_vars

----------------------------------------------------------------------------
(* C4 *)

\* The feedback-code classes of a set of answers under a cache row.
Classes(row, S) == {{b \in S : row[b] = row[a]} : a \in S}

InjectiveOn(row, S) == \A a, b \in S : a # b => row[a] # row[b]

\* Solvable with n >= 2 guesses, as the specification defines it: with 2,
\* some guess is injective on S; with more, some guess splits S into classes
\* that are all solvable with one guess less.
RECURSIVE Solvable(_, _, _)
Solvable(cache, n, S) ==
    IF n = 2 THEN \E g \in 1..Len(cache) : InjectiveOn(cache[g], S)
    ELSE \E g \in 1..Len(cache) :
            \A B \in Classes(cache[g], S) : Solvable(cache, n - 1, B)

\* C4: for every budget N >= 3 and non-empty candidate set S, can_solve
\* returns true iff some guess buckets S so that every bucket is solvable
\* with N - 1 guesses.
C4_GeneralCaseExact ==
    (call.op = "can_solve" /\ call.num_guesses >= 3) =>
        /\ call.err = NoError
        /\ call.ret <=> Solvable(score_cache, call.num_guesses, Range(call.cands))

----------------------------------------------------------------------------
(* Entry point specification: one search in a fresh process, as main makes *)

\* Largest guess budget of an entry call.
MaxEntryBudget == 5

\* Guess pools of one or two words.
SmallPools == {gs \in GuessPools : Len(gs) <= 2}

InitEntry == \E gs \in SmallPools : NewScorer(gs, AnswerPool)

\* main's order: Scorer::new, optimise_guess_order, then the one search.
NoSearchYet == call.op \in {"none", "optimise_guess_order"}

Rerank ==
    /\ call.op = "none"
    /\ OptimiseGuessOrder

EntryCanSolve ==
    \E n \in 1..MaxEntryBudget, cands \in SearchCands :
        /\ NoSearchYet
        /\ SearchStep(can_solve(score_cache, n, cands, bucket_vec, SEEN_TABLE, COUNTER),
                      [op |-> "can_solve", num_guesses |-> n, cands |-> cands,
                       ret |-> FALSE, err |-> NoError])

EntryCanSolveWithGuessNoisy ==
    \E guess \in 1..Len(guesses), n \in 1..MaxEntryBudget, cands \in SearchCands :
        /\ NoSearchYet
        /\ SearchStep(can_solve_with_guess_noisy(score_cache, guess, n, cands,
                                                 bucket_vec, SEEN_TABLE, COUNTER),
                      [op |-> "can_solve_with_guess_noisy", guess |-> guess,
                       num_guesses |-> n, cands |-> cands, ret |-> FALSE, err |-> NoError])

EntryCanSolveNoisy ==
    \E n \in 1..MaxEntryBudget, cands \in SearchCands :
        /\ NoSearchYet
        /\ SearchStep(can_solve_noisy(score_cache, n, cands, bucket_vec, SEEN_TABLE, COUNTER),
                      [op |-> "can_solve_noisy", num_guesses |-> n, cands |-> cands,
                       ret |-> FALSE, err |-> NoError])

NextEntry == Rerank \/ EntryCanSolve \/ EntryCanSolveWithGuessNoisy \/ EntryCanSolveNoisy

SpecEntry == InitEntry /\ [][NextEntry]_vars

----------------------------------------------------------------------------
(* C5, C9 *)

\* C5: with budget 1, can_solve reports solvable iff the candidate set has
\* exactly one member.
C5_BudgetOne ==
    (call.op = "can_solve" /\ call.num_guesses = 1) =>
        /\ call.err = NoError
        /\ call.ret <=> Cardinality(Range(call.cands)) = 1

\* C9: the search entry points end by returning a boolean, whatever the
\* non-empty pool, the non-empty candidate set and the budget N >= 1.
C9_NeverAnError ==
    call.op \in {"can_solve", "can_solve_with_guess_noisy", "can_solve_noisy"} =>
        call.err = NoError

----------------------------------------------------------------------------
(* Main specification: the whole run of main on a pair of word lists *)

\* Seven answers that take three guesses to tell apart, a guess TieOdd that
\* cannot be the first of them, and three guesses TieKeys that can; all four
\* have the same worst case.
TieAnswers ==
    << <<2, 3, 5, 7, 9>>, <<1, 4, 6, 8, 10>>, <<1, 4, 5, 7, 9>>, <<2, 3, 5, 7, 10>>,
       <<2, 3, 6, 8, 10>>, <<1, 4, 6, 8, 9>>, <<2, 3, 5, 8, 9>> >>

TieOdd == <<11, 11, 5, 11, 11>>

TieKeys == << <<11, 11, 11, 7, 11>>, <<1, 11, 11, 11, 11>>, <<11, 11, 11, 11, 9>> >>

\* The same thirteen words in eleven orders: the first key after k copies of
\* TieOdd, the other two keys last.
TiePool(k) ==
    [i \in 1..k |-> TieOdd] \o <<TieKeys[1]>> \o [i \in 1..(NOISY_TRIES - k) |-> TieOdd]
        \o SubSeq(TieKeys, 2, 3)

MainInputs ==
    {<<gs, AnswerPool>> : gs \in {p \in GuessPools : Len(p) <= 3}}
        \cup {<<TiePool(k), TieAnswers>> : k \in 0..NOISY_TRIES}

InitMain ==
    /\ guesses = <<>>
    /\ answers = <<>>
    /\ score_cache = <<>>
    /\ bucket_vec = <<>>
    /\ SEEN_TABLE = new_seen_table
    /\ COUNTER = 0
    /\ call \in {[op |-> "input", guesses |-> in[1], answers |-> in[2], err |-> NoError] :
                    in \in MainInputs}

\* fn main: Scorer::new (MainNew), optimise_guess_order (MainRank),
\* can_solve_noisy(DEPTH) on all the answers (MainSearch), and the state the
\* run leaves (MainStep).
MainStep(gs, as, wc, ranked, res) ==
    /\ guesses' = [i \in DOMAIN wc |-> wc[i][3]]
    /\ answers' = as
    /\ score_cache' = ranked
    /\ bucket_vec' = res.bv
    /\ SEEN_TABLE' = res.t
    /\ COUNTER' = res.c
    /\ \E e \in Outcomes(res.err) :
         call' = [op |-> "main", input |-> gs, possible |-> res.r, err |-> e]

MainSearch(gs, as, wc, ranked) ==
    MainStep(gs, as, wc, ranked,
             can_solve_noisy(ranked, DEPTH, [i \in 1..Len(as) |-> i], new_bucket_vec,
                             SEEN_TABLE, COUNTER))

MainRank(gs, as, cache, wc) == MainSearch(gs, as, wc, permute_rows(cache, wc))

MainNew(gs, as, cache) == MainRank(gs, as, cache, worst_cases(gs, as, cache))

Main ==
    /\ call.op = "input"
    /\ MainNew(call.guesses, call.answers, new_score_cache(call.guesses, call.answers))

NextMain == Main

SpecMain == InitMain /\ [][NextMain]_vars

----------------------------------------------------------------------------
(* C6 *)

\* C6: whatever the order of the guess list, the boolean main's search ends
\* with is true exactly when some guess of the pool solves the whole
\* answer pool within DEPTH guesses.
C6_OrderIndependent ==
    (call.op = "main" /\ call.err = NoError) =>
        (call.possible <=> Solvable(score_cache, DEPTH, 1..Len(answers)))

====
